---- MODULE Spec2Model ----
(***************************************************************************)
(* TechStackFlow (src/src/components/TechStackFlow.tsx): the layout /      *)
(* position store, the scenario filter, the payload inspector and the view *)
(* controller of the tech-stack diagram, as a state machine.               *)
(*                                                                         *)
(* JavaScript values are tagged records: the tag js is the typeof-like     *)
(* kind, objects carry their own properties as a function from property    *)
(* names to values.  A text (a localStorage item, a file) is a record of   *)
(* its own: JSON.stringify builds one, JSON.parse reads one or throws.     *)
(***************************************************************************)
EXTENDS Integers, Sequences, FiniteSets, TLC

---------------------------------------------------------------------------
(* Bounds of the model (inputs the environment may supply).                *)

\* drags the user makes: the first MaxDrops entries of Drops
MaxDrops == 2
\* file reads in flight at the same time
MaxReaders == 1
\* file reads in flight at the same time where imports overlap
MaxPending == 2
\* connections the user draws: the first MaxConnections entries of Connections
MaxConnections == 2

---------------------------------------------------------------------------
(* JavaScript values.                                                      *)

Undefined == [js |-> "undefined"]
Null == [js |-> "null"]
Num(n) == [js |-> "number", n |-> n]
Str(s) == [js |-> "string", s |-> s]
Bool(b) == [js |-> "boolean", b |-> b]
\* a number that is not an integer, by its decimal digits
Dec(d) == [js |-> "number", decimal |-> d]
Obj(m) == [js |-> "object", members |-> m]
Arr(s) == [js |-> "array", items |-> s]
EmptyObj == Obj([k \in {} |-> Undefined])

\* the object { x, y } of two numbers; the program never reads x or y, it
\* only passes positions on
XY(x, y) == [js |-> "point", x |-> x, y |-> y]

\* v ?? w
Coalesce(v, w) == IF v = Undefined \/ v = Null THEN w ELSE v

\* v?.[k] : undefined on null, undefined and on a value without the property
Get(v, k) ==
    IF v.js = "object" /\ k \in DOMAIN v.members THEN v.members[k] ELSE Undefined

\* v.k throws a TypeError on null and undefined
GetThrows(v) == v = Undefined \/ v = Null

\* the string a template literal `${v}` yields for a string value
TemplateString(v) == v.s

---------------------------------------------------------------------------
(* Texts and JSON.                                                         *)

\* the empty string ""
EmptyText == [text |-> "empty"]
\* a non-empty text that is not JSON, e.g. "{oops"
MalformedText == [text |-> "malformed"]

\* what JSON.stringify keeps of a value: properties whose value is undefined
\* are left out
RECURSIVE toJSON(_)
toJSON(v) ==
    IF v.js = "object"
    THEN Obj([k \in {j \in DOMAIN v.members : v.members[j] # Undefined}
                 |-> toJSON(v.members[k])])
    ELSE IF v.js = "array"
    THEN Arr([i \in DOMAIN v.items |->
                 IF v.items[i] = Undefined THEN Null ELSE toJSON(v.items[i])])
    ELSE v

\* JSON.stringify(v, null, space)
JSONstringify(v, space) == [text |-> "json", value |-> toJSON(v), space |-> space]

\* JSON.parse(t) throws a SyntaxError unless t is a JSON text
JSONparseThrows(t) == t.text # "json"
JSONparse(t) == t.value

\* a string in a boolean context: only "" is false (null is false as well)
Truthy(t) == t # Null /\ t # EmptyText

---------------------------------------------------------------------------
(* window.localStorage: the keys present and their texts.                  *)

getItem(ls, key) == IF key \in DOMAIN ls THEN ls[key] ELSE Null
setItem(ls, key, t) == [k \in DOMAIN ls \cup {key} |-> IF k = key THEN t ELSE ls[k]]
removeItem(ls, key) == [k \in DOMAIN ls \ {key} |-> ls[k]]

LS_KEY_POSITIONS(mode) == <<"techstackflow_positions_", mode>>

isBrowser == TRUE

---------------------------------------------------------------------------
(* The static catalog.                                                     *)

\* what the model keeps of makeNode: the id and the position (the label, the
\* colours and the handles are presentation)
makeNode(id, pos) == [id |-> id, position |-> pos]

\* what the model keeps of e(id, source, target, label)
e(id, source, target) == [id |-> id, source |-> source, target |-> target, animated |-> TRUE]

NODES ==
    [SHOPIFY |-> "shopify",
     MARKETPLACE_TAB |-> "marketplace-tab",
     CHANNELENGINE |-> "channelengine",
     OMS |-> "hublify-oms",
     PIM |-> "hublify-pim",
     SAP |-> "sap-s4",
     SAP_WMS |-> "sap-wms",
     DACHSER |-> "dachser-edi",
     SENDCLOUD |-> "sendcloud",
     HUBSPOT |-> "hubspot",
     TRUSTED_SHOPS |-> "trusted-shops",
     CDP |-> "cdp",
     GA4 |-> "ga4",
     GTM |-> "gtm",
     AD_PIXELS |-> "ad-pixels",
     REPRICING |-> "repricing",
     KB |-> "knowledge-base",
     HELP |-> "self-helpdesk",
     CHATBOT |-> "chatbot",
     RETURNS |-> "returns-portal",
     CUSTOMER_B2C |-> "endkunde-b2c",
     CUSTOMER_B2B |-> "b2b-kunde"]

NODE_META_KEYS ==
    <<NODES.SHOPIFY,
      NODES.MARKETPLACE_TAB,
      NODES.CHANNELENGINE,
      NODES.OMS,
      NODES.PIM,
      NODES.SAP,
      NODES.SAP_WMS,
      NODES.DACHSER,
      NODES.SENDCLOUD,
      NODES.HUBSPOT,
      NODES.TRUSTED_SHOPS,
      NODES.CDP,
      NODES.GA4,
      NODES.GTM,
      NODES.AD_PIXELS,
      NODES.REPRICING,
      NODES.KB,
      NODES.HELP,
      NODES.CHATBOT,
      NODES.RETURNS,
      NODES.CUSTOMER_B2C,
      NODES.CUSTOMER_B2B>>

CUBE_POS ==
    Obj(
    "endkunde-b2c" :> XY(40, 80) @@
    "b2b-kunde" :> XY(40, 200) @@
    "shopify" :> XY(300, 80) @@
    "marketplace-tab" :> XY(300, 160) @@
    "channelengine" :> XY(300, 260) @@
    "hublify-pim" :> XY(560, 40) @@
    "repricing" :> XY(560, 140) @@
    "hublify-oms" :> XY(560, 240) @@
    "sap-s4" :> XY(820, 200) @@
    "sap-wms" :> XY(1080, 220) @@
    "dachser-edi" :> XY(1340, 220) @@
    "sendcloud" :> XY(1600, 220) @@
    "hubspot" :> XY(820, 40) @@
    "trusted-shops" :> XY(1080, 40) @@
    "cdp" :> XY(820, 360) @@
    "gtm" :> XY(1080, 360) @@
    "ga4" :> XY(1340, 360) @@
    "ad-pixels" :> XY(1600, 360) @@
    "knowledge-base" :> XY(300, 360) @@
    "self-helpdesk" :> XY(560, 360) @@
    "chatbot" :> XY(300, 480) @@
    "returns-portal" :> XY(560, 480))

LANES_POS ==
    Obj(
    "endkunde-b2c" :> XY(80, 40) @@
    "b2b-kunde" :> XY(240, 40) @@
    "shopify" :> XY(80, 160) @@
    "marketplace-tab" :> XY(240, 160) @@
    "channelengine" :> XY(400, 160) @@
    "hublify-oms" :> XY(80, 280) @@
    "hublify-pim" :> XY(240, 280) @@
    "sap-s4" :> XY(80, 400) @@
    "sap-wms" :> XY(240, 400) @@
    "dachser-edi" :> XY(80, 520) @@
    "sendcloud" :> XY(240, 520) @@
    "gtm" :> XY(80, 640) @@
    "ga4" :> XY(240, 640) @@
    "ad-pixels" :> XY(400, 640) @@
    "hubspot" :> XY(80, 760) @@
    "knowledge-base" :> XY(240, 760) @@
    "self-helpdesk" :> XY(400, 760) @@
    "chatbot" :> XY(560, 760) @@
    "cdp" :> XY(80, 880) @@
    "trusted-shops" :> XY(80, 1000) @@
    "repricing" :> XY(240, 1000) @@
    "returns-portal" :> XY(400, 1000))

ALL_EDGES ==
    <<e("edge-b2c-chatbot", "endkunde-b2c", "chatbot"),
      e("edge-shopify-chatbot", "shopify", "chatbot"),
      e("edge-chatbot-kb", "chatbot", "knowledge-base"),
      e("edge-kb-pim", "knowledge-base", "hublify-pim"),
      e("edge-help-kb", "self-helpdesk", "knowledge-base"),
      e("edge-returns-kb", "returns-portal", "knowledge-base"),
      e("edge-kb-cdp", "knowledge-base", "cdp"),
      e("edge-returns-cdp", "returns-portal", "cdp"),
      e("edge-chatbot-hubspot", "chatbot", "hubspot"),
      e("edge-b2b-shop", "b2b-kunde", "shopify"),
      e("edge-b2c-shop", "endkunde-b2c", "shopify"),
      e("edge-b2c-marketplace", "endkunde-b2c", "marketplace-tab"),
      e("edge-marketplace-channelengine", "marketplace-tab", "channelengine"),
      e("edge-channelengine-oms", "channelengine", "hublify-oms"),
      e("edge-order-shopify-oms", "shopify", "hublify-oms"),
      e("edge-order-oms-sap", "hublify-oms", "sap-s4"),
      e("edge-order-sap-dachser", "sap-s4", "dachser-edi"),
      e("edge-order-dachser-sendcloud", "dachser-edi", "sendcloud"),
      e("edge-order-backfeed-oms", "sendcloud", "hublify-oms"),
      e("edge-order-backfeed-channels", "hublify-oms", "shopify"),
      e("edge-order-backfeed-channels2", "hublify-oms", "channelengine"),
      e("edge-returns-portal-oms", "returns-portal", "hublify-oms"),
      e("edge-returns-oms-sap", "hublify-oms", "sap-s4"),
      e("edge-returns-sap-hubspot", "sap-s4", "hubspot"),
      e("edge-returns-oms-sendcloud", "hublify-oms", "sendcloud"),
      e("edge-consent-shopify-cdp", "shopify", "cdp"),
      e("edge-consent-hubspot-cdp", "hubspot", "cdp"),
      e("edge-feed-pim-channel", "hublify-pim", "channelengine"),
      e("edge-feed-repricing-channel", "repricing", "channelengine"),
      e("edge-feed-pim-shopify", "hublify-pim", "shopify"),
      e("edge-tracking-sendcloud-channels", "sendcloud", "channelengine"),
      e("edge-trusted-shops-shopify", "trusted-shops", "shopify"),
      e("edge-trusted-shops-hubspot", "trusted-shops", "hubspot"),
      e("edge-trusted-shops-ga4", "trusted-shops", "ga4"),
      e("edge-trusted-shops-cdp", "trusted-shops", "cdp"),
      e("edge-gtm-ga4", "gtm", "ga4"),
      e("edge-ads-shopify", "ad-pixels", "shopify"),
      e("edge-analytics-cdp", "ga4", "cdp"),
      e("edge-helpdesk-hubspot", "self-helpdesk", "hubspot"),
      e("edge-chatbot-cdp", "chatbot", "cdp"),
      e("edge-kb-shopify", "knowledge-base", "shopify")>>

SCENARIO_DEFS ==
    "OrderCreated" :> [includeEdgeIds |->
        <<"edge-b2b-shop", "edge-b2c-shop", "edge-b2c-marketplace", "edge-marketplace-channelengine", "edge-channelengine-oms", "edge-order-shopify-oms", "edge-order-oms-sap", "edge-order-sap-dachser", "edge-order-dachser-sendcloud", "edge-order-backfeed-oms", "edge-order-backfeed-channels", "edge-order-backfeed-channels2">>] @@
    "Returns" :> [includeEdgeIds |->
        <<"edge-returns-portal-oms", "edge-returns-oms-sap", "edge-returns-sap-hubspot", "edge-returns-oms-sendcloud">>] @@
    "ConsentEvents" :> [includeEdgeIds |->
        <<"edge-consent-shopify-cdp", "edge-consent-hubspot-cdp">>] @@
    "Feeds" :> [includeEdgeIds |->
        <<"edge-feed-pim-channel", "edge-feed-repricing-channel", "edge-feed-pim-shopify">>] @@
    "Tracking" :> [includeEdgeIds |->
        <<"edge-tracking-sendcloud-channels">>] @@
    "TrustedShops" :> [includeEdgeIds |->
        <<"edge-trusted-shops-shopify", "edge-trusted-shops-hubspot", "edge-trusted-shops-ga4", "edge-trusted-shops-cdp">>] @@
    "GA4_GTM_Ads" :> [includeEdgeIds |->
        <<"edge-gtm-ga4", "edge-ads-shopify", "edge-analytics-cdp">>] @@
    "SelfService" :> [includeEdgeIds |->
        <<"edge-helpdesk-hubspot", "edge-chatbot-cdp", "edge-kb-shopify", "edge-b2c-chatbot", "edge-shopify-chatbot", "edge-chatbot-kb", "edge-kb-pim", "edge-help-kb", "edge-returns-kb", "edge-kb-cdp", "edge-returns-cdp", "edge-chatbot-hubspot">>]

PAYLOADS ==
    "edge-b2c-chatbot" :>
        Obj("source" :> Str("B2C Customer") @@ "tool" :> Str("Chatbot") @@ "location" :> Str("Shopify")) @@
    "edge-shopify-chatbot" :>
        Obj("embed" :> Bool(TRUE) @@ "channel" :> Str("Shopify Storefront")) @@
    "edge-chatbot-kb" :>
        Obj("action" :> Str("search") @@ "query" :> Str("refund policy")) @@
    "edge-kb-pim" :>
        Obj("source" :> Str("PIM") @@ "fields" :> Arr(<<Str("title"), Str("attributes"), Str("faq")>>)) @@
    "edge-help-kb" :>
        Obj("context" :> Str("Self Helpdesk") @@ "linkType" :> Str("KB Article")) @@
    "edge-returns-kb" :>
        Obj("context" :> Str("Returns Portal") @@ "linkType" :> Str("KB Article")) @@
    "edge-kb-cdp" :>
        Obj("event" :> Str("KBViewed") @@ "tags" :> Arr(<<Str("support"), Str("content")>>)) @@
    "edge-returns-cdp" :>
        Obj("event" :> Str("ReturnCreated") @@ "fields" :> Arr(<<Str("rma"), Str("reason")>>)) @@
    "edge-chatbot-hubspot" :>
        Obj("action" :> Str("Create Ticket") @@ "priority" :> Str("Normal")) @@
    "edge-b2b-shop" :>
        Obj("channel" :> Str("B2B") @@ "to" :> Str("Shopify") @@ "payload" :> Obj("poNumber" :> Str("PO-90231") @@ "terms" :> Str("Net30"))) @@
    "edge-b2c-shop" :>
        Obj("channel" :> Str("B2C") @@ "to" :> Str("Shopify") @@ "payload" :> Obj("cartItems" :> Num(4) @@ "coupon" :> Str("Q4SAVE"))) @@
    "edge-b2c-marketplace" :>
        Obj("channel" :> Str("B2C") @@ "to" :> Str("Marketplace Tab") @@ "marketplace" :> Bool(TRUE)) @@
    "edge-marketplace-channelengine" :>
        Obj("route" :> Str("Shop Tab -> ChannelEngine") @@ "payload" :> Obj("marketplaces" :> Arr(<<Str("Amazon"), Str("eBay")>>))) @@
    "edge-channelengine-oms" :>
        Obj("step" :> Str("ChannelEngine->OMS") @@ "payload" :> Obj("importedOrders" :> Num(12))) @@
    "edge-order-shopify-oms" :>
        Obj("event" :> Str("OrderCreated") @@ "source" :> Str("Shopify") @@ "target" :> Str("OMS") @@ "payload" :> Obj("orderId" :> Str("SO-100234") @@ "items" :> Num(3) @@ "totalGross" :> Dec("129.9") @@ "currency" :> Str("EUR"))) @@
    "edge-order-oms-sap" :>
        Obj("step" :> Str("OMS->SAP") @@ "messageType" :> Str("ORDERS") @@ "payload" :> Obj("orderId" :> Str("SO-100234") @@ "status" :> Str("Released"))) @@
    "edge-order-sap-dachser" :>
        Obj("step" :> Str("SAP->Dachser(EDI)") @@ "edi" :> Str("DESADV") @@ "payload" :> Obj("shipmentId" :> Str("SH-77823") @@ "packages" :> Num(2))) @@
    "edge-order-dachser-sendcloud" :>
        Obj("step" :> Str("Dachser->Sendcloud") @@ "payload" :> Obj("trackingNo" :> Str("JD0123456789") @@ "carrier" :> Str("DHL"))) @@
    "edge-order-backfeed-oms" :>
        Obj("step" :> Str("Sendcloud->OMS") @@ "payload" :> Obj("status" :> Str("Shipped") @@ "trackingNo" :> Str("JD0123456789"))) @@
    "edge-order-backfeed-channels" :>
        Obj("step" :> Str("OMS->Shopify") @@ "payload" :> Obj("orderId" :> Str("SO-100234") @@ "status" :> Str("Shipped"))) @@
    "edge-order-backfeed-channels2" :>
        Obj("step" :> Str("OMS->ChannelEngine") @@ "payload" :> Obj("orderId" :> Str("SO-100234") @@ "status" :> Str("Shipped"))) @@
    "edge-returns-portal-oms" :>
        Obj("event" :> Str("ReturnRequested") @@ "payload" :> Obj("rma" :> Str("RMA-55671") @@ "reason" :> Str("Size"))) @@
    "edge-returns-oms-sap" :>
        Obj("step" :> Str("OMS->SAP") @@ "payload" :> Obj("rma" :> Str("RMA-55671") @@ "disposition" :> Str("Inspect"))) @@
    "edge-returns-sap-hubspot" :>
        Obj("step" :> Str("SAP->HubSpot") @@ "payload" :> Obj("rma" :> Str("RMA-55671") @@ "refund" :> Dec("49.95"))) @@
    "edge-returns-oms-sendcloud" :>
        Obj("step" :> Str("OMS->Sendcloud") @@ "payload" :> Obj("label" :> Bool(TRUE) @@ "dropOff" :> Str("DHL Shop"))) @@
    "edge-consent-shopify-cdp" :>
        Obj("event" :> Str("ConsentUpdate") @@ "payload" :> Obj("userId" :> Str("u_3499") @@ "marketing" :> Bool(TRUE))) @@
    "edge-consent-hubspot-cdp" :>
        Obj("event" :> Str("EmailEngagement") @@ "payload" :> Obj("campaign" :> Str("Q4-Launch") @@ "clicked" :> Bool(TRUE))) @@
    "edge-feed-pim-channel" :>
        Obj("feed" :> Str("ProductFeed") @@ "items" :> Num(12000) @@ "delta" :> Num(140)) @@
    "edge-feed-repricing-channel" :>
        Obj("feed" :> Str("PriceFeed") @@ "rules" :> Num(5) @@ "marketplace" :> Str("Amazon")) @@
    "edge-feed-pim-shopify" :>
        Obj("feed" :> Str("ProductSync") @@ "items" :> Num(12000) @@ "updated" :> Num(320)) @@
    "edge-tracking-sendcloud-channels" :>
        Obj("event" :> Str("TrackingUpdate") @@ "status" :> Str("Delivered") @@ "marketplaces" :> Arr(<<Str("Amazon"), Str("eBay")>>)) @@
    "edge-trusted-shops-shopify" :>
        Obj("event" :> Str("Badge/Review") @@ "payload" :> Obj("orderId" :> Str("SO-100234") @@ "stars" :> Num(5))) @@
    "edge-trusted-shops-hubspot" :>
        Obj("sync" :> Str("Reviews") @@ "count" :> Num(12) @@ "avg" :> Dec("4.7")) @@
    "edge-trusted-shops-ga4" :>
        Obj("analytics" :> Str("ReviewImpressions") @@ "sessions" :> Num(1321)) @@
    "edge-trusted-shops-cdp" :>
        Obj("event" :> Str("ReviewEvent") @@ "audience" :> Str("Promoters")) @@
    "edge-gtm-ga4" :>
        Obj("config" :> Str("GA4 via GTM") @@ "streams" :> Arr(<<Str("Web")>>)) @@
    "edge-ads-shopify" :>
        Obj("pixels" :> Arr(<<Str("Meta"), Str("Google Ads"), Str("TikTok")>>) @@ "conversion" :> Str("Purchase")) @@
    "edge-analytics-cdp" :>
        Obj("event" :> Str("Analytics->CDP Export") @@ "fields" :> Arr(<<Str("sessionId"), Str("source"), Str("utm")>>)) @@
    "edge-helpdesk-hubspot" :>
        Obj("event" :> Str("TicketCreated") @@ "priority" :> Str("Medium")) @@
    "edge-chatbot-cdp" :>
        Obj("event" :> Str("IntentCaptured") @@ "intent" :> Str("ReturnQuestion")) @@
    "edge-kb-shopify" :>
        Obj("event" :> Str("ArticleLink") @@ "topic" :> Str("Size guide"))

\* the placeholder onEdgeClick shows for an edge without a payload
NO_PAYLOAD == Obj("info" :> Str("Keine Payload für diese Kante vorhanden."))

LayoutModes == {"cube", "lanes"}
ScenarioKeys == DOMAIN SCENARIO_DEFS

Range(s) == {s[i] : i \in DOMAIN s}

---------------------------------------------------------------------------
(* Layout / position store.                                                *)

\* mode === 'cube' ? CUBE_POS : LANES_POS
presetOf(mode) == IF mode = "cube" THEN CUBE_POS ELSE LANES_POS

\* the preset consulted before the saved position
positionFor_PresetFirst(saved, base, id) ==
    Coalesce(Coalesce(Get(base, id), Get(saved, id)), XY(0, 0))

\* the preset left out: a node without a saved entry goes to the origin
positionFor_OriginFallback(saved, base, id) ==
    Coalesce(Get(saved, id), XY(0, 0))

\* saved?.[id] ?? base[id] ?? { x: 0, y: 0 }
positionFor(saved, base, id) ==
    Coalesce(Coalesce(Get(saved, id), Get(base, id)), XY(0, 0))

\* makeNodesForLayout(mode) reads the item of the mode; JSON.parse is not
\* guarded, so a non-empty text that is not JSON makes it throw
makeNodesForLayoutThrows(mode, ls) ==
    LET savedRaw == IF isBrowser THEN getItem(ls, LS_KEY_POSITIONS(mode)) ELSE Null
    IN  Truthy(savedRaw) /\ JSONparseThrows(savedRaw)

makeNodesForLayout(mode, ls) ==
    LET base == presetOf(mode)
        savedRaw == IF isBrowser THEN getItem(ls, LS_KEY_POSITIONS(mode)) ELSE Null
        saved == IF Truthy(savedRaw) THEN JSONparse(savedRaw) ELSE Null
    IN  [i \in 1..Len(NODE_META_KEYS) |->
            makeNode(NODE_META_KEYS[i], positionFor(saved, base, NODE_META_KEYS[i]))]

\* the object built by forEach / reduce over a node list: each node assigns
\* map[node.id] = node.position, a later node overwriting an earlier one
RECURSIVE assignPositions(_, _, _)
assignPositions(nds, i, map) ==
    IF i > Len(nds) THEN map
    ELSE assignPositions(nds, i + 1, (nds[i].id :> nds[i].position) @@ map)

positionsOf(nds) == Obj(assignPositions(nds, 1, [k \in {} |-> Undefined]))

---------------------------------------------------------------------------
(* Scenario filter and payload inspector.                                  *)

\* the scenario filter applied to the static catalog instead of the edge list
filteredEdges_FiltersCatalog(eds, scen) ==
    IF scen = "ALL" THEN eds
    ELSE LET ids == Range(SCENARIO_DEFS[scen].includeEdgeIds)
             keep(edge) == edge.id \in ids
         IN  SelectSeq(ALL_EDGES, keep)

\* "ALL" answered with the static catalog instead of the edge list
filteredEdges_AllIsCatalog(eds, scen) ==
    IF scen = "ALL" THEN ALL_EDGES
    ELSE LET ids == Range(SCENARIO_DEFS[scen].includeEdgeIds)
             keep(edge) == edge.id \in ids
         IN  SelectSeq(eds, keep)

\* the memo filteredEdges
filteredEdges(eds, scen) ==
    IF scen = "ALL" THEN eds
    ELSE LET ids == Range(SCENARIO_DEFS[scen].includeEdgeIds)
             keep(edge) == edge.id \in ids
         IN  SelectSeq(eds, keep)

\* a lookup that never finds an entry (a wrong key, such as edge.source)
payloadFor_Missing(id) == NO_PAYLOAD

\* PAYLOADS[edge.id] ?? { info: ... }
payloadFor(id) == IF id \in DOMAIN PAYLOADS THEN PAYLOADS[id] ELSE NO_PAYLOAD

---------------------------------------------------------------------------
(* Inputs.                                                                 *)

\* the node a drag ends on and where it is dropped
Drops ==
    << [id |-> NODES.SHOPIFY, position |-> XY(7, 3)],
       [id |-> NODES.CUSTOMER_B2B, position |-> XY(14, 6)],
       [id |-> NODES.SHOPIFY, position |-> XY(21, 9)],
       [id |-> NODES.PIM, position |-> XY(28, 12)] >>
DropInputs == {Drops[i] : i \in 1..MaxDrops}

\* the files the user may pick in the import dialog
Doc(m) == JSONstringify(Obj(m), 2)
ImportFiles ==
    { MalformedText,
      JSONstringify(Null, 0),
      Doc("layout" :> Str("lanes")),
      Doc("layout" :> Str("cube") @@ "positions" :> Obj(NODES.SHOPIFY :> XY(11, 12))),
      Doc("positions" :> Obj(NODES.SHOPIFY :> XY(11, 12) @@ NODES.PIM :> Num(5) @@
                             "no-such-node" :> XY(1, 1))) }
\* the files of overlapping imports: one that is rejected, one that declares
\* its layout, one that leaves the layout to the program
PendingFiles ==
    { MalformedText,
      Doc("layout" :> Str("cube") @@ "positions" :> Obj(NODES.SHOPIFY :> XY(11, 12))),
      Doc("positions" :> Obj(NODES.SHOPIFY :> XY(11, 12) @@ NODES.PIM :> Num(5) @@
                             "no-such-node" :> XY(1, 1))) }
\* a file whose layout is none of the two modes
ForeignLayoutFiles ==
    { Doc("layout" :> Str("grid") @@ "positions" :> EmptyObj) }

\* connections the user may draw between two handles, with the id addEdge
\* gives the new edge: `reactflow__edge-${source}-${target}`
Connections ==
    << [source |-> NODES.PIM, target |-> NODES.SAP,
        id |-> "reactflow__edge-hublify-pim-sap-s4"],
       [source |-> NODES.SHOPIFY, target |-> NODES.CDP,
        id |-> "reactflow__edge-shopify-cdp"],
       [source |-> NODES.GA4, target |-> NODES.HUBSPOT,
        id |-> "reactflow__edge-ga4-hubspot"] >>
ConnectionInputs == {Connections[i] : i \in 1..MaxConnections}

\* localStorage as the page finds it: no item, or under the key of a layout
\* the text "" or a text that is not JSON
InitialStorages ==
    { [k \in {} |-> Null],
      LS_KEY_POSITIONS("lanes") :> MalformedText,
      LS_KEY_POSITIONS("lanes") :> EmptyText,
      LS_KEY_POSITIONS("cube") :> EmptyText @@ LS_KEY_POSITIONS("lanes") :> MalformedText,
      LS_KEY_POSITIONS("cube") :> MalformedText }

---------------------------------------------------------------------------
(* State.                                                                  *)

VARIABLES
    layout,           \* useState<LayoutMode>
    scenario,         \* useState<ScenarioKey | 'ALL'>
    selectedPayload,  \* useState<{ id, json } | null>
    playing,          \* useState<boolean>
    nodes,            \* useNodesState: Node[]
    edges,            \* useEdgesState: Edge[]
    localStorage,     \* window.localStorage
    readers,          \* FileReaders whose read has not completed yet
    effects,          \* what the last handler did to the outside: alert, fitView timer, download
    uncaught          \* an exception escaped (the component tree is gone)

vars == <<layout, scenario, selectedPayload, playing, nodes, edges, localStorage,
          readers, effects, uncaught>>

\* a handler that neither alerts, nor asks for a fit, nor downloads
NoEffects == [alert |-> FALSE, fitView |-> 0, download |-> Null]
\* setTimeout(() => rf.fitView(fitViewOptions), 0)
FitView == [alert |-> FALSE, fitView |-> 1, download |-> Null]
\* a catch block that swallows the error
Alert_Silent == NoEffects
\* window.alert('Ungültige JSON-Datei.')
Alert == [alert |-> TRUE, fitView |-> 0, download |-> Null]

Init ==
    /\ layout = "cube"
    /\ scenario = "ALL"
    /\ selectedPayload = Null
    /\ playing = TRUE
    /\ localStorage \in InitialStorages
    /\ uncaught = makeNodesForLayoutThrows("cube", localStorage)
    /\ nodes = IF uncaught THEN <<>> ELSE makeNodesForLayout("cube", localStorage)
    /\ edges = ALL_EDGES
    /\ readers = <<>>
    /\ effects = NoEffects

---------------------------------------------------------------------------
(* Handlers.                                                               *)

\* a switch that saves the positions on the canvas under the mode it switches to
switchLayout_Saves(mode) ==
    /\ ~uncaught
    /\ layout' = mode
    /\ localStorage' = setItem(localStorage, LS_KEY_POSITIONS(mode),
                               JSONstringify(positionsOf(nodes), 0))
    /\ nodes' = makeNodesForLayout(mode, localStorage')
    /\ effects' = FitView
    /\ UNCHANGED <<scenario, selectedPayload, playing, edges, readers, uncaught>>

\* switchLayout(mode): setLayout is called before makeNodesForLayout, so the
\* mode is switched even when the load throws
switchLayout(mode) ==
    /\ ~uncaught
    /\ layout' = mode
    /\ UNCHANGED <<scenario, selectedPayload, playing, edges, localStorage, readers>>
    /\ IF makeNodesForLayoutThrows(mode, localStorage)
       THEN /\ uncaught' = TRUE
            /\ effects' = NoEffects
            /\ UNCHANGED nodes
       ELSE /\ effects' = FitView
            /\ UNCHANGED uncaught
            /\ nodes' = makeNodesForLayout(mode, localStorage)

\* a drag-stop that saves the entry of the dragged node only
onNodeDragStop_SavesDragged(id, position) ==
    /\ ~uncaught
    /\ \E i \in DOMAIN nodes : nodes[i].id = id
    /\ effects' = NoEffects
    /\ UNCHANGED <<layout, scenario, selectedPayload, playing, edges, readers, uncaught>>
    /\ nodes' = [i \in DOMAIN nodes |->
                    IF nodes[i].id = id THEN [nodes[i] EXCEPT !.position = position]
                    ELSE nodes[i]]
    /\ localStorage' = setItem(localStorage, LS_KEY_POSITIONS(layout),
                               JSONstringify(Obj(id :> position), 0))

\* onNodeDragStop(_e, n): n is the dragged node with its new position
onNodeDragStop(id, position) ==
    /\ ~uncaught
    /\ \E i \in DOMAIN nodes : nodes[i].id = id
    /\ effects' = NoEffects
    /\ UNCHANGED <<layout, scenario, selectedPayload, playing, edges, readers, uncaught>>
    /\ LET next == [i \in DOMAIN nodes |->
                       IF nodes[i].id = id THEN [nodes[i] EXCEPT !.position = position]
                       ELSE nodes[i]]
           map == positionsOf(next)
       IN  /\ nodes' = next
           /\ localStorage' = IF isBrowser
                              THEN setItem(localStorage, LS_KEY_POSITIONS(layout),
                                           JSONstringify(map, 0))
                              ELSE localStorage

\* a reset that reloads without removing the item
resetLayout_KeepsItem(confirmed) ==
    /\ ~uncaught
    /\ isBrowser
    /\ IF ~confirmed
       THEN /\ effects' = NoEffects
            /\ UNCHANGED <<nodes, localStorage>>
       ELSE /\ UNCHANGED localStorage
            /\ nodes' = makeNodesForLayout(layout, localStorage)
            /\ effects' = FitView
    /\ UNCHANGED <<layout, scenario, selectedPayload, playing, edges, readers, uncaught>>

\* a reset that does not wait for the answer of window.confirm
resetLayout_Unconfirmed(confirmed) ==
    /\ ~uncaught
    /\ isBrowser
    /\ UNCHANGED <<layout, scenario, selectedPayload, playing, edges, readers, uncaught>>
    /\ effects' = FitView
    /\ localStorage' = removeItem(localStorage, LS_KEY_POSITIONS(layout))
    /\ nodes' = makeNodesForLayout(layout, localStorage')

\* resetLayout(): window.confirm answers `confirmed`
resetLayout(confirmed) ==
    /\ ~uncaught
    /\ isBrowser
    /\ UNCHANGED <<layout, scenario, selectedPayload, playing, edges, readers, uncaught>>
    /\ IF ~confirmed
       THEN /\ effects' = NoEffects
            /\ UNCHANGED <<nodes, localStorage>>
       ELSE /\ effects' = FitView
            /\ localStorage' = removeItem(localStorage, LS_KEY_POSITIONS(layout))
            /\ nodes' = makeNodesForLayout(layout, localStorage')

\* restoreProLayout()
restoreProLayout ==
    /\ ~uncaught
    /\ isBrowser
    /\ effects' = FitView
    /\ UNCHANGED <<layout, scenario, selectedPayload, playing, edges, readers, uncaught>>
    /\ LET preset == presetOf(layout)
       IN  localStorage' = setItem(localStorage, LS_KEY_POSITIONS(layout),
                                   JSONstringify(preset, 0))
    /\ nodes' = makeNodesForLayout(layout, localStorage')

\* an export that leaves the layout out of the document
exportJSON_OmitsLayout ==
    /\ ~uncaught
    /\ isBrowser
    /\ LET state == Obj("positions" :> positionsOf(nodes))
       IN  effects' = [alert |-> FALSE, fitView |-> 0,
                       download |-> [name |-> <<"techstackflow_", layout, ".json">>,
                                     content |-> JSONstringify(state, 2)]]
    /\ UNCHANGED <<layout, scenario, selectedPayload, playing, nodes, edges,
                   localStorage, readers, uncaught>>

\* exportJSON(): the download techstackflow_<layout>.json
exportJSON ==
    /\ ~uncaught
    /\ isBrowser
    /\ UNCHANGED <<layout, scenario, selectedPayload, playing, nodes, edges,
                   localStorage, readers, uncaught>>
    /\ LET state == Obj("layout" :> Str(layout) @@ "positions" :> positionsOf(nodes))
       IN  effects' = [alert |-> FALSE, fitView |-> 0,
                       download |-> [name |-> <<"techstackflow_", layout, ".json">>,
                                     content |-> JSONstringify(state, 2)]]

\* importJSON(file): starts the read; onload is created here and keeps the
\* layout of this render
importJSON(file) ==
    /\ ~uncaught
    /\ readers' = Append(readers, [result |-> file, layout |-> layout])
    /\ effects' = NoEffects
    /\ UNCHANGED <<layout, scenario, selectedPayload, playing, nodes, edges,
                   localStorage, uncaught>>

\* the layout of the document ignored
importMode_Current(parsed, closureLayout) == closureLayout

\* const mode = parsed.layout ?? layout, as the string that names the key
importMode(parsed, closureLayout) ==
    LET declared == Get(parsed, "layout")
    IN  IF declared = Undefined \/ declared = Null THEN closureLayout
        ELSE TemplateString(declared)

\* const pos = parsed.positions ?? {}
importPositions(parsed) == Coalesce(Get(parsed, "positions"), EmptyObj)

\* what the try block of reader.onload throws on: JSON.parse, or parsed.layout
\* on null
onloadThrows(reader) ==
    \/ JSONparseThrows(reader.result)
    \/ GetThrows(JSONparse(reader.result))

\* an import that adds the positions of the document to the snapshot the mode
\* has instead of replacing it
onload_MergesSnapshot(i) ==
    /\ ~uncaught
    /\ i \in DOMAIN readers
    /\ readers' = [j \in 1..(Len(readers) - 1) |->
                      IF j < i THEN readers[j] ELSE readers[j + 1]]
    /\ IF onloadThrows(readers[i])
       THEN /\ effects' = Alert
            /\ UNCHANGED <<layout, nodes, localStorage>>
       ELSE LET parsed == JSONparse(readers[i].result)
                mode == importMode(parsed, readers[i].layout)
                pos == importPositions(parsed)
                old == getItem(localStorage, LS_KEY_POSITIONS(mode))
                kept == IF Truthy(old) /\ ~JSONparseThrows(old) /\ JSONparse(old).js = "object"
                        THEN JSONparse(old).members
                        ELSE EmptyObj.members
                merged == IF pos.js = "object" THEN Obj(pos.members @@ kept) ELSE Obj(kept)
            IN  /\ localStorage' = setItem(localStorage, LS_KEY_POSITIONS(mode),
                                           JSONstringify(merged, 0))
                /\ layout' = mode
                /\ nodes' = makeNodesForLayout(mode, localStorage')
                /\ effects' = FitView
    /\ UNCHANGED <<scenario, selectedPayload, playing, edges, uncaught>>

\* an import that persists the positions and sets the layout but does not
\* rebuild the node list
onload_KeepsNodes(i) ==
    /\ ~uncaught
    /\ i \in DOMAIN readers
    /\ readers' = [j \in 1..(Len(readers) - 1) |->
                      IF j < i THEN readers[j] ELSE readers[j + 1]]
    /\ IF onloadThrows(readers[i])
       THEN /\ effects' = Alert
            /\ UNCHANGED <<layout, nodes, localStorage>>
       ELSE LET parsed == JSONparse(readers[i].result)
                mode == importMode(parsed, readers[i].layout)
                pos == importPositions(parsed)
            IN  /\ localStorage' = setItem(localStorage, LS_KEY_POSITIONS(mode),
                                           JSONstringify(pos, 0))
                /\ layout' = mode
                /\ UNCHANGED nodes
                /\ effects' = FitView
    /\ UNCHANGED <<scenario, selectedPayload, playing, edges, uncaught>>

\* reader.onload of the i-th pending reader
onload(i) ==
    /\ ~uncaught
    /\ i \in DOMAIN readers
    /\ readers' = [j \in 1..(Len(readers) - 1) |->
                      IF j < i THEN readers[j] ELSE readers[j + 1]]
    /\ IF onloadThrows(readers[i])
       THEN /\ effects' = Alert
            /\ UNCHANGED <<layout, nodes, localStorage>>
       ELSE LET parsed == JSONparse(readers[i].result)
                mode == importMode(parsed, readers[i].layout)
                pos == importPositions(parsed)
            IN  /\ localStorage' = IF isBrowser
                                   THEN setItem(localStorage, LS_KEY_POSITIONS(mode),
                                                JSONstringify(pos, 0))
                                   ELSE localStorage
                /\ layout' = mode
                /\ nodes' = makeNodesForLayout(mode, localStorage')
                /\ effects' = FitView
    /\ UNCHANGED <<scenario, selectedPayload, playing, edges, uncaught>>

\* a scenario change that also puts the current layout back to its preset
setScenario_RestoresPreset(key) ==
    /\ ~uncaught
    /\ scenario' = key
    /\ effects' = NoEffects
    /\ UNCHANGED <<layout, selectedPayload, playing, edges, readers, uncaught>>
    /\ localStorage' = removeItem(localStorage, LS_KEY_POSITIONS(layout))
    /\ nodes' = makeNodesForLayout(layout, localStorage')

\* the scenario <select> and the Reset Filter button
setScenario(key) ==
    /\ ~uncaught
    /\ scenario' = key
    /\ effects' = NoEffects
    /\ UNCHANGED <<layout, selectedPayload, playing, nodes, edges, localStorage,
                   readers, uncaught>>

\* the Play / Stop button, with the effect on [playing] that follows the render
togglePlay ==
    /\ ~uncaught
    /\ playing' = ~playing
    /\ edges' = [i \in DOMAIN edges |-> [edges[i] EXCEPT !.animated = playing']]
    /\ effects' = NoEffects
    /\ UNCHANGED <<layout, scenario, selectedPayload, nodes, localStorage, readers,
                   uncaught>>

\* onEdgeClick(_e, edge): edge is one of the edges on the canvas
onEdgeClick(edge) ==
    /\ ~uncaught
    /\ edge \in Range(filteredEdges(edges, scenario))
    /\ selectedPayload' = [id |-> edge.id, json |-> JSONstringify(payloadFor(edge.id), 2)]
    /\ effects' = NoEffects
    /\ UNCHANGED <<layout, scenario, playing, nodes, edges, localStorage, readers,
                   uncaught>>

\* addEdge(edgeParams, eds) of reactflow: no second edge for a connection that
\* exists, else the edge is appended with a generated id
addEdge(edge, eds) ==
    IF \E i \in DOMAIN eds : eds[i].source = edge.source /\ eds[i].target = edge.target
    THEN eds
    ELSE Append(eds, edge)

\* a connection drawn as the catalog edges are built: animated, whatever the
\* animation flag is
onConnect_AlwaysAnimated(conn) ==
    /\ ~uncaught
    /\ edges' = addEdge([id |-> conn.id, source |-> conn.source, target |-> conn.target,
                         animated |-> TRUE], edges)
    /\ effects' = NoEffects
    /\ UNCHANGED <<layout, scenario, selectedPayload, playing, nodes, localStorage,
                   readers, uncaught>>

\* onConnect(conn)
onConnect(conn) ==
    /\ ~uncaught
    /\ edges' = addEdge([id |-> conn.id, source |-> conn.source, target |-> conn.target,
                         animated |-> playing], edges)
    /\ effects' = NoEffects
    /\ UNCHANGED <<layout, scenario, selectedPayload, playing, nodes, localStorage,
                   readers, uncaught>>

---------------------------------------------------------------------------
(* Specifications.                                                         *)

SwitchLayout == \E mode \in LayoutModes : switchLayout(mode)
NodeDragStop == \E drop \in DropInputs : onNodeDragStop(drop.id, drop.position)
ResetLayout == \E confirmed \in BOOLEAN : resetLayout(confirmed)
RestoreProLayout == restoreProLayout
ExportJSON == exportJSON
ImportJSON == Len(readers) < MaxReaders /\ \E file \in ImportFiles : importJSON(file)
ImportForeignJSON ==
    Len(readers) < MaxReaders /\ \E file \in ForeignLayoutFiles : importJSON(file)
ReaderOnload == \E i \in 1..MaxReaders : onload(i)
SetScenario == \E key \in {"ALL"} \cup ScenarioKeys : setScenario(key)
TogglePlay == togglePlay
EdgeClick == \E edge \in Range(edges) : onEdgeClick(edge)
Connect == \E conn \in ConnectionInputs : onConnect(conn)

\* the layout / position store and the import: every handler that touches
\* the layout, the node list or localStorage
Next ==
    \/ SwitchLayout
    \/ NodeDragStop
    \/ ResetLayout
    \/ RestoreProLayout
    \/ ImportJSON
    \/ ReaderOnload

Spec == Init /\ [][Next]_vars

\* the same with the export and with files that declare a layout the program
\* does not know
NextForeign ==
    \/ Next
    \/ ExportJSON
    \/ ImportForeignJSON

SpecForeign == Init /\ [][NextForeign]_vars

\* the export, and the import of the file that was downloaded last
ImportExportedJSON ==
    /\ Len(readers) < MaxReaders
    /\ effects.download # Null
    /\ importJSON(effects.download.content)

NextExport ==
    \/ SwitchLayout
    \/ NodeDragStop
    \/ ResetLayout
    \/ ExportJSON
    \/ ImportExportedJSON
    \/ ReaderOnload

SpecExport == Init /\ [][NextExport]_vars

\* imports that overlap each other and the other handlers
DragWhilePending == onNodeDragStop(Drops[1].id, Drops[1].position)
ScenarioWhilePending == \E key \in {"ALL", "Returns"} : setScenario(key)
ImportPending == Len(readers) < MaxPending /\ \E file \in PendingFiles : importJSON(file)
PendingOnload == \E i \in 1..MaxPending : onload(i)

NextPending ==
    \/ SwitchLayout
    \/ DragWhilePending
    \/ ResetLayout
    \/ ScenarioWhilePending
    \/ TogglePlay
    \/ ImportPending
    \/ PendingOnload

SpecPending == Init /\ [][NextPending]_vars

\* the scenario filter, the animation and the payload inspector, in either
\* layout
NextView ==
    \/ SwitchLayout
    \/ SetScenario
    \/ TogglePlay
    \/ EdgeClick
    \/ Connect

SpecView == Init /\ [][NextView]_vars

\* the view handlers next to the handlers that move nodes and switch the
\* layout
NextLayoutAndView ==
    \/ SwitchLayout
    \/ DragWhilePending
    \/ ScenarioWhilePending
    \/ TogglePlay
    \/ EdgeClick

SpecLayoutAndView == Init /\ [][NextLayoutAndView]_vars

---------------------------------------------------------------------------
(* Properties.                                                             *)

\* the node list in which every node is at its preset position of the mode
presetNodes(mode) ==
    [i \in 1..Len(NODE_META_KEYS) |->
        makeNode(NODE_META_KEYS[i], presetOf(mode).members[NODE_META_KEYS[i]])]

\* the position of the node id in a node list
positionIn(nds, id) == (CHOOSE n \in Range(nds) : n.id = id).position

\* C1: round trip of the position store.  A drag-stop in mode cube or lanes
\* saves the complete snapshot of the canvas under that mode; loading the
\* mode from the store written by it does not throw and gives every node
\* exactly the position the snapshot gave it.
C1_RoundTrip ==
    [][(NodeDragStop /\ layout \in LayoutModes) =>
          /\ ~makeNodesForLayoutThrows(layout, localStorage')
          /\ makeNodesForLayout(layout, localStorage') = nodes'
          /\ Len(nodes') = Len(NODE_META_KEYS)
          /\ \A i \in DOMAIN nodes' : nodes'[i].id = NODE_META_KEYS[i]]_vars

\* lanes holds a snapshot saved by a drag-stop: the item is the text of the
\* canvas, on which the dragged node is off its preset
C1_Witness ==
    /\ ~uncaught
    /\ layout = "lanes"
    /\ getItem(localStorage, LS_KEY_POSITIONS("lanes")) = JSONstringify(positionsOf(nodes), 0)
    /\ positionIn(nodes, Drops[1].id) = Drops[1].position
    /\ positionIn(nodes, NODES.PIM) = Num(5)

\* C2: per-mode isolation.  A drag-stop, a reset and a restore in mode m leave
\* the item of every other key as it is, and a switch of the layout writes
\* nothing to localStorage; the positions a switch to mode m shows are those
\* loaded from the item of m, so what was dragged in the other mode is not
\* among them.
C2_PerModeIsolation ==
    [][/\ (NodeDragStop \/ ResetLayout \/ RestoreProLayout) =>
             \A key \in (DOMAIN localStorage \cup DOMAIN localStorage') \ {LS_KEY_POSITIONS(layout)} :
                getItem(localStorage', key) = getItem(localStorage, key)
       /\ SwitchLayout =>
             /\ localStorage' = localStorage
             /\ uncaught' \/ nodes' = makeNodesForLayout(layout', localStorage)]_vars

\* both modes hold a snapshot of their own: cube the one in which the first
\* drop was made, lanes the one in which the second was made
C2_Witness ==
    /\ ~uncaught
    /\ layout = "cube"
    /\ getItem(localStorage, LS_KEY_POSITIONS("cube")) = JSONstringify(positionsOf(nodes), 0)
    /\ positionIn(nodes, Drops[1].id) = Drops[1].position
    /\ positionIn(nodes, Drops[2].id) = presetOf("cube").members[Drops[2].id]
    /\ LS_KEY_POSITIONS("lanes") \in DOMAIN localStorage
    /\ ~makeNodesForLayoutThrows("lanes", localStorage)
    /\ positionIn(makeNodesForLayout("lanes", localStorage), Drops[2].id) = Drops[2].position
    /\ positionIn(makeNodesForLayout("lanes", localStorage), Drops[1].id)
           = presetOf("lanes").members[Drops[1].id]

\* C3: a persisted record that is present but is not JSON is treated as
\* absent: with such an item under the current layout no error has been
\* raised and every node is at its preset position.
C3_MalformedAsAbsent ==
    (/\ LS_KEY_POSITIONS(layout) \in DOMAIN localStorage
     /\ JSONparseThrows(localStorage[LS_KEY_POSITIONS(layout)]))
        => (~uncaught /\ nodes = presetNodes(layout))

\* C4: the read of a file that is not JSON ends with an alert and leaves the
\* layout, the node list, the scenario, the animation flag, the edges, the
\* selected payload and every item of localStorage as they were.
C4_ImportMalformedUnchanged ==
    [][\A i \in DOMAIN readers :
          (onload(i) /\ JSONparseThrows(readers[i].result)) =>
              /\ effects'.alert
              /\ ~uncaught'
              /\ UNCHANGED <<layout, nodes, scenario, playing, edges, selectedPayload,
                             localStorage>>]_vars

\* the alert is up after a failed import in lanes, with a dragged snapshot
C4_Witness ==
    /\ effects.alert
    /\ layout = "lanes"
    /\ readers = <<>>
    /\ getItem(localStorage, LS_KEY_POSITIONS("lanes")) = JSONstringify(positionsOf(nodes), 0)
    /\ positionIn(nodes, Drops[1].id) = Drops[1].position

\* a document that declares a layout (a string) and positions
declaresBoth(t) ==
    /\ ~JSONparseThrows(t)
    /\ Get(JSONparse(t), "layout").js = "string"
    /\ Get(JSONparse(t), "positions").js = "object"

\* C5: the read of a document that declares layout L and positions P ends
\* with P persisted under L, the layout L, every node at the position load(L)
\* gives it (its entry in P, else its preset of L), and every other item of
\* localStorage as it was.
C5_ImportApplies ==
    [][\A i \in DOMAIN readers :
          (onload(i) /\ declaresBoth(readers[i].result)) =>
              LET L == Get(JSONparse(readers[i].result), "layout").s
                  P == Get(JSONparse(readers[i].result), "positions")
              IN  /\ LS_KEY_POSITIONS(L) \in DOMAIN localStorage'
                  /\ JSONparse(localStorage'[LS_KEY_POSITIONS(L)]) = P
                  /\ layout' = L
                  /\ nodes' = makeNodesForLayout(L, localStorage')
                  /\ \A n \in Range(nodes') :
                        n.position = IF n.id \in DOMAIN P.members /\ P.members[n.id] # Null
                                     THEN P.members[n.id]
                                     ELSE presetOf(L).members[n.id]
                  /\ \A key \in (DOMAIN localStorage \cup DOMAIN localStorage') \ {LS_KEY_POSITIONS(L)} :
                        getItem(localStorage', key) = getItem(localStorage, key)
                  /\ effects' = FitView]_vars

\* the cube document has been applied while lanes keeps a dragged snapshot
C5_Witness ==
    /\ ~uncaught
    /\ layout = "cube"
    /\ getItem(localStorage, LS_KEY_POSITIONS("cube"))
           = JSONstringify(Obj(NODES.SHOPIFY :> XY(11, 12)), 0)
    /\ positionIn(nodes, NODES.SHOPIFY) = XY(11, 12)
    /\ positionIn(nodes, NODES.PIM) = presetOf("cube").members[NODES.PIM]
    /\ LS_KEY_POSITIONS("lanes") \in DOMAIN localStorage
    /\ ~makeNodesForLayoutThrows("lanes", localStorage)
    /\ positionIn(makeNodesForLayout("lanes", localStorage), Drops[1].id) = Drops[1].position

\* C6: a confirmed reset in mode cube or lanes removes the item of the mode
\* and leaves every node at its preset position of the mode, whatever was
\* dragged before.
C6_ResetRestoresPreset ==
    [][(resetLayout(TRUE) /\ layout \in LayoutModes) =>
          /\ LS_KEY_POSITIONS(layout) \notin DOMAIN localStorage'
          /\ nodes' = presetNodes(layout)
          /\ layout' = layout]_vars

\* the item lanes had when the page was opened is gone (only a reset removes
\* an item), the nodes are at the lanes preset
C6_Witness ==
    /\ ~uncaught
    /\ layout = "lanes"
    /\ LS_KEY_POSITIONS("lanes") \notin DOMAIN localStorage
    /\ getItem(localStorage, LS_KEY_POSITIONS("cube")) = EmptyText
    /\ nodes = presetNodes("lanes")
    /\ effects = FitView

\* C7: under a named scenario the canvas shows exactly the edges of the edge
\* list whose id is in the include-set of the scenario: as many as there are,
\* the k-th of them in the list at place k, each one as it is in the list.
C7_ScenarioFilter ==
    scenario \in ScenarioKeys =>
        LET shown == filteredEdges(edges, scenario)
            ids == Range(SCENARIO_DEFS[scenario].includeEdgeIds)
            kept == {j \in DOMAIN edges : edges[j].id \in ids}
        IN  /\ Len(shown) = Cardinality(kept)
            /\ \A j \in kept : shown[Cardinality({k \in kept : k <= j})] = edges[j]

\* a named scenario over an edge list that was changed: the animation is
\* stopped and a drawn edge, which no scenario includes, is in the list
C7_Witness ==
    /\ scenario = "Returns"
    /\ ~playing
    /\ Len(edges) > Len(ALL_EDGES)
    /\ Len(filteredEdges(edges, scenario)) = 4
    /\ \A i \in DOMAIN edges : ~edges[i].animated

\* C8: under the scenario ALL the canvas shows the edge list itself: every
\* edge, unmodified, in the order of the list.
C8_AllShowsEveryEdge ==
    scenario = "ALL" =>
        LET shown == filteredEdges(edges, scenario)
        IN  /\ Len(shown) = Len(edges)
            /\ \A i \in DOMAIN edges : shown[i] = edges[i]

\* ALL over an edge list that differs from the static catalog
C8_Witness ==
    /\ scenario = "ALL"
    /\ ~playing
    /\ Len(edges) > Len(ALL_EDGES)
    /\ selectedPayload # Null

\* C9: a click on an edge selects the id of the edge and the JSON text of its
\* entry in PAYLOADS, or of the placeholder when PAYLOADS has no entry for
\* the id; no error is raised.
C9_PayloadInspector ==
    [][\A i \in DOMAIN edges :
          LET edge == edges[i]
          IN  (/\ selectedPayload' \notin {selectedPayload, Null}
               /\ selectedPayload'.id = edge.id
               /\ onEdgeClick(edge)) =>
              /\ ~uncaught'
              /\ selectedPayload'.id = edge.id
              /\ ~JSONparseThrows(selectedPayload'.json)
              /\ JSONparse(selectedPayload'.json) =
                     IF edge.id \in DOMAIN PAYLOADS THEN PAYLOADS[edge.id]
                     ELSE Obj("info" :> Str("Keine Payload für diese Kante vorhanden."))]_vars

\* the placeholder is selected for a drawn edge, which has no payload
C9_Witness ==
    /\ selectedPayload # Null
    /\ selectedPayload.id \notin DOMAIN PAYLOADS
    /\ selectedPayload.id = Connections[1].id
    /\ JSONparse(selectedPayload.json) = NO_PAYLOAD

\* C10: the layout is cube or lanes, the scenario is ALL or a named scenario,
\* the animation flag is a boolean and localStorage holds positions under the
\* keys of cube and lanes only.
C10_StateDomain ==
    /\ layout \in LayoutModes
    /\ scenario \in {"ALL"} \cup ScenarioKeys
    /\ playing \in BOOLEAN
    /\ DOMAIN localStorage \subseteq {LS_KEY_POSITIONS(mode) : mode \in LayoutModes}

\* C11: a drag-stop of node n at p in mode m puts n at p in memory, leaves
\* every other node of the list as it was, and overwrites the item of m with
\* the text of the complete resulting mapping: one entry for every node of the
\* catalog, dragged or not, each equal to the position in memory.
C11_DragStopSavesAll ==
    [][\A drop \in DropInputs :
          onNodeDragStop(drop.id, drop.position) =>
              /\ Len(nodes') = Len(nodes)
              /\ \A i \in DOMAIN nodes :
                    /\ nodes'[i].id = nodes[i].id
                    /\ nodes'[i].position =
                          IF nodes[i].id = drop.id THEN drop.position ELSE nodes[i].position
              /\ LS_KEY_POSITIONS(layout) \in DOMAIN localStorage'
              /\ ~JSONparseThrows(localStorage'[LS_KEY_POSITIONS(layout)])
              /\ LET snapshot == JSONparse(localStorage'[LS_KEY_POSITIONS(layout)])
                 IN  /\ snapshot.js = "object"
                     /\ DOMAIN snapshot.members = Range(NODE_META_KEYS)
                     /\ \A i \in DOMAIN nodes' :
                           snapshot.members[nodes'[i].id] = nodes'[i].position]_vars

\* the cube snapshot written by the drag-stop of the second node holds the
\* imported position of a node that was not dragged
C11_Witness ==
    /\ ~uncaught
    /\ layout = "cube"
    /\ effects = NoEffects
    /\ readers = <<>>
    /\ positionIn(nodes, Drops[2].id) = Drops[2].position
    /\ positionIn(nodes, NODES.SHOPIFY) = XY(11, 12)
    /\ getItem(localStorage, LS_KEY_POSITIONS("cube")) = JSONstringify(positionsOf(nodes), 0)

\* a parsed snapshot has an entry for the node id
hasEntry(saved, id) ==
    /\ saved.js = "object"
    /\ id \in DOMAIN saved.members
    /\ saved.members[id] # Null

\* C12: per-node fallback.  Whenever the item of a mode is a JSON text, loading
\* the mode raises no error and gives every catalog node its entry of the
\* snapshot when there is one and its preset of the mode when there is none;
\* an id that neither the snapshot nor the preset knows is put at (0,0).
C12_PerNodeFallback ==
    \A mode \in LayoutModes :
        LET raw == getItem(localStorage, LS_KEY_POSITIONS(mode))
        IN  (Truthy(raw) /\ ~JSONparseThrows(raw)) =>
                LET saved == JSONparse(raw)
                    loaded == makeNodesForLayout(mode, localStorage)
                IN  /\ ~makeNodesForLayoutThrows(mode, localStorage)
                    /\ Len(loaded) = Len(NODE_META_KEYS)
                    /\ \A i \in DOMAIN loaded :
                          /\ loaded[i].id = NODE_META_KEYS[i]
                          /\ loaded[i].position =
                                IF hasEntry(saved, loaded[i].id)
                                THEN saved.members[loaded[i].id]
                                ELSE presetOf(mode).members[loaded[i].id]
                    /\ \A id \in {"no-such-node", "no-such-node-2"} :
                          positionFor(saved, presetOf(mode), id) =
                              IF hasEntry(saved, id) THEN saved.members[id] ELSE XY(0, 0)

\* lanes shows a snapshot that has entries for two catalog nodes only: those
\* two are where the snapshot puts them, another node is at its lanes preset
C12_Witness ==
    /\ ~uncaught
    /\ layout = "lanes"
    /\ LS_KEY_POSITIONS("lanes") \in DOMAIN localStorage
    /\ ~JSONparseThrows(localStorage[LS_KEY_POSITIONS("lanes")])
    /\ LET saved == JSONparse(localStorage[LS_KEY_POSITIONS("lanes")])
       IN  /\ hasEntry(saved, NODES.SHOPIFY)
           /\ hasEntry(saved, "no-such-node")
           /\ ~hasEntry(saved, NODES.CUSTOMER_B2B)
    /\ positionIn(nodes, NODES.SHOPIFY) = XY(11, 12)
    /\ positionIn(nodes, NODES.CUSTOMER_B2B) = presetOf("lanes").members[NODES.CUSTOMER_B2B]

\* the document { "layout": "lanes" }
LanesOnlyDoc == Doc("layout" :> Str("lanes"))

\* C13: the read of a document that declares layout lanes and no positions
\* ends, without an error, in layout lanes with every node at its lanes
\* preset, whatever the layout and the item of lanes were before.
C13_ImportLanesWithoutPositions ==
    [][\A i \in DOMAIN readers :
          (readers[i].result = LanesOnlyDoc /\ onload(i)) =>
              /\ ~uncaught'
              /\ ~effects'.alert
              /\ layout' = "lanes"
              /\ nodes' = presetNodes("lanes")
              /\ \A n \in Range(nodes') : n.position = LANES_POS.members[n.id]]_vars

\* lanes has been imported without positions from cube: the item of lanes is
\* the empty object, cube keeps the snapshot of a drag
C13_Witness ==
    /\ ~uncaught
    /\ layout = "lanes"
    /\ effects = FitView
    /\ getItem(localStorage, LS_KEY_POSITIONS("lanes")) = JSONstringify(EmptyObj, 0)
    /\ nodes = presetNodes("lanes")
    /\ LS_KEY_POSITIONS("cube") \in DOMAIN localStorage
    /\ ~makeNodesForLayoutThrows("cube", localStorage)
    /\ positionIn(makeNodesForLayout("cube", localStorage), Drops[1].id) = Drops[1].position

\* a document that parses to an object without a layout
omitsLayout(t) ==
    /\ ~JSONparseThrows(t)
    /\ JSONparse(t).js = "object"
    /\ Get(JSONparse(t), "layout") = Undefined

\* C14: the read of a document that omits the layout is applied to the layout
\* that is current when the read completes: the view stays in that layout and
\* the positions of the document are persisted under its key, also when the
\* layout was switched after the file was chosen.
C14_ImportWithoutLayoutUsesCurrent ==
    [][\A i \in DOMAIN readers :
          (omitsLayout(readers[i].result) /\ onload(i)) =>
              /\ layout' = layout
              /\ LS_KEY_POSITIONS(layout) \in DOMAIN localStorage'
              /\ JSONparse(localStorage'[LS_KEY_POSITIONS(layout)])
                     = importPositions(JSONparse(readers[i].result))]_vars

\* C15: an import is applied in one step, replace or reject.  Choosing a file
\* changes neither the layout, nor the node list, nor localStorage; the step
\* that completes a read either alerts and leaves all three as they were, or
\* leaves all three reflecting the document: the item of the new layout is the
\* text of the positions of the document, the node list is the load of the new
\* layout, the layout is the one the document declares if it declares one, and
\* no other item is written.  The other pending read stays pending.
C15_ImportAtomic ==
    [][/\ ImportPending => UNCHANGED <<layout, nodes, localStorage>>
       /\ \A i \in DOMAIN readers :
             onload(i) =>
                 LET doc == readers[i].result
                     rejected ==
                         /\ effects'.alert
                         /\ UNCHANGED <<layout, nodes, localStorage>>
                     replaced ==
                         /\ ~effects'.alert
                         /\ ~JSONparseThrows(doc)
                         /\ LS_KEY_POSITIONS(layout') \in DOMAIN localStorage'
                         /\ JSONparse(localStorage'[LS_KEY_POSITIONS(layout')])
                                = Coalesce(Get(JSONparse(doc), "positions"), EmptyObj)
                         /\ nodes' = makeNodesForLayout(layout', localStorage')
                         /\ Get(JSONparse(doc), "layout").js = "string"
                                => layout' = Get(JSONparse(doc), "layout").s
                         /\ \A key \in (DOMAIN localStorage \cup DOMAIN localStorage')
                                           \ {LS_KEY_POSITIONS(layout')} :
                                getItem(localStorage', key) = getItem(localStorage, key)
                 IN  /\ rejected \/ replaced
                     /\ ~uncaught'
                     /\ Len(readers') = Len(readers) - 1]_vars

\* one of two overlapping imports has been applied and the other, chosen in
\* lanes, is still being read: layout, canvas and item are those of the cube
\* document
C15_Witness ==
    /\ ~uncaught
    /\ Len(readers) = 1
    /\ readers[1].layout = "lanes"
    /\ readers[1].result \in PendingFiles \ {MalformedText}
    /\ effects = FitView
    /\ layout = "cube"
    /\ getItem(localStorage, LS_KEY_POSITIONS("cube"))
           = JSONstringify(Obj(NODES.SHOPIFY :> XY(11, 12)), 0)
    /\ nodes = makeNodesForLayout("cube", localStorage)
    /\ positionIn(nodes, NODES.SHOPIFY) = XY(11, 12)
    /\ ~playing
    /\ scenario = "Returns"

\* a document as the export writes it: a layout and a position for every
\* node of the catalog
isExport(t) ==
    /\ ~JSONparseThrows(t)
    /\ Get(JSONparse(t), "layout").js = "string"
    /\ Get(JSONparse(t), "positions").js = "object"
    /\ DOMAIN Get(JSONparse(t), "positions").members = Range(NODE_META_KEYS)

\* C16: export / import round trip.  The export downloads a document whose
\* layout is the current layout and whose positions are the position in
\* memory of every node, and changes no state; when the read of such a
\* document completes, in whatever state, the layout is the layout of the
\* document and every node is at the position the document gives it.
C16_ExportImportRoundTrip ==
    [][/\ ExportJSON =>
             /\ UNCHANGED <<layout, scenario, selectedPayload, playing, nodes, edges,
                            localStorage, readers, uncaught>>
             /\ effects'.download # Null
             /\ isExport(effects'.download.content)
             /\ LET doc == JSONparse(effects'.download.content)
                IN  /\ Get(doc, "layout") = Str(layout)
                    /\ \A i \in DOMAIN nodes :
                          Get(doc, "positions").members[nodes[i].id] = nodes[i].position
       /\ \A i \in DOMAIN readers :
             (isExport(readers[i].result) /\ onload(i)) =>
                 LET doc == JSONparse(readers[i].result)
                 IN  /\ ~uncaught'
                     /\ ~effects'.alert
                     /\ layout' = Get(doc, "layout").s
                     /\ {nodes'[j].id : j \in DOMAIN nodes'} = Range(NODE_META_KEYS)
                     /\ \A j \in DOMAIN nodes' :
                           nodes'[j].position = Get(doc, "positions").members[nodes'[j].id]]_vars

\* an exported cube document is being read while the program is in lanes
\* with other positions: the document has the dragged node where it was
\* dropped in cube, the canvas has it at its lanes preset
C16_Witness ==
    /\ ~uncaught
    /\ Len(readers) = 1
    /\ isExport(readers[1].result)
    /\ Get(JSONparse(readers[1].result), "layout") = Str("cube")
    /\ Get(JSONparse(readers[1].result), "positions").members[Drops[1].id] = Drops[1].position
    /\ layout = "lanes"
    /\ positionIn(nodes, Drops[1].id) = presetOf("lanes").members[Drops[1].id]

\* the position load gives a node: its entry of the persisted snapshot of the
\* mode, else its preset of the mode; an item that is not JSON is no snapshot
loadedPosition(mode, ls, id) ==
    LET raw == getItem(ls, LS_KEY_POSITIONS(mode))
    IN  IF Truthy(raw) /\ ~JSONparseThrows(raw) /\ hasEntry(JSONparse(raw), id)
        THEN JSONparse(raw).members[id]
        ELSE presetOf(mode).members[id]

\* C17: switchLayout(m) sets the layout to m, replaces the node list by the
\* load of m (for every catalog node its persisted position of m, else its
\* preset of m), writes nothing to localStorage and requests exactly one
\* fit-to-view, without an error.
C17_SwitchLoadsAndFits ==
    [][\A mode \in LayoutModes :
          switchLayout(mode) =>
              /\ ~uncaught'
              /\ layout' = mode
              /\ Len(nodes') = Len(NODE_META_KEYS)
              /\ \A i \in DOMAIN nodes' :
                    /\ nodes'[i].id = NODE_META_KEYS[i]
                    /\ nodes'[i].position = loadedPosition(mode, localStorage, nodes'[i].id)
              /\ localStorage' = localStorage
              /\ effects'.fitView = 1]_vars

\* C18: a reset whose confirmation is declined changes nothing: localStorage,
\* the node list, the layout, the scenario, the animation flag, the edges and
\* the selected payload are as before, no fit-to-view is requested, nothing
\* is alerted or downloaded.
C18_DeclinedResetChangesNothing ==
    [][resetLayout(FALSE) =>
          /\ UNCHANGED <<localStorage, nodes, layout, scenario, playing, edges,
                         selectedPayload, readers, uncaught>>
          /\ effects'.fitView = 0
          /\ ~effects'.alert
          /\ effects'.download = Null]_vars

\* a reset has been declined in cube over an imported snapshot: the item and
\* the imported position are still there and no fit-to-view is pending (a
\* drag-stop would have written a complete snapshot, a switch or a completed
\* read would have requested a fit)
C18_Witness ==
    /\ ~uncaught
    /\ layout = "cube"
    /\ readers = <<>>
    /\ effects = NoEffects
    /\ getItem(localStorage, LS_KEY_POSITIONS("cube"))
           = JSONstringify(Obj(NODES.SHOPIFY :> XY(11, 12)), 0)
    /\ positionIn(nodes, NODES.SHOPIFY) = XY(11, 12)

\* C19: the Play / Stop button flips the animation flag and writes nothing to
\* localStorage; in every state every edge of the edge list, drawn edges
\* included, has its animated flag equal to the animation flag.
C19_AnimationFollowsFlag ==
    /\ [](\A i \in DOMAIN edges : edges[i].animated = playing)
    /\ [][TogglePlay => (playing' = ~playing /\ localStorage' = localStorage)]_vars

\* the animation is stopped and the edge list ends with a drawn edge: none of
\* its edges is animated
C19_Witness ==
    /\ ~playing
    /\ Len(edges) = Len(ALL_EDGES) + 1
    /\ edges[Len(edges)].id = Connections[1].id
    /\ \A i \in DOMAIN edges : edges[i].animated = FALSE
    /\ scenario = "ALL"

\* C20: the edge list holds exactly the edges of the static
\* catalog, with their ids, sources and targets, and every edge joins two
\* nodes of the catalog.
C20_EdgeSetStatic ==
    /\ Len(edges) = Len(ALL_EDGES)
    /\ \A i \in DOMAIN edges :
          /\ edges[i].id = ALL_EDGES[i].id
          /\ edges[i].source = ALL_EDGES[i].source
          /\ edges[i].target = ALL_EDGES[i].target
          /\ edges[i].source \in Range(NODE_META_KEYS)
          /\ edges[i].target \in Range(NODE_META_KEYS)

\* what does hold of the edge list: the edges of the static catalog are
\* always its first entries, with their ids, sources and targets; what follows
\* them are edges the user has drawn, each between two nodes of the catalog
\* that no earlier edge joins in that direction; ids are not repeated; no step
\* removes or renames an edge of the list.
CatalogEdgesKept ==
    /\ [](/\ Len(edges) >= Len(ALL_EDGES)
          /\ \A i \in DOMAIN ALL_EDGES :
                /\ edges[i].id = ALL_EDGES[i].id
                /\ edges[i].source = ALL_EDGES[i].source
                /\ edges[i].target = ALL_EDGES[i].target
          /\ \A i \in DOMAIN edges :
                /\ edges[i].source \in Range(NODE_META_KEYS)
                /\ edges[i].target \in Range(NODE_META_KEYS)
                /\ \A j \in DOMAIN edges : edges[i].id = edges[j].id => i = j
          /\ \A i \in DOMAIN edges \ DOMAIN ALL_EDGES :
                \A j \in 1..(i - 1) :
                   ~(edges[j].source = edges[i].source /\ edges[j].target = edges[i].target))
    /\ [][edges' # edges =>
             /\ Len(edges') >= Len(edges)
             /\ \A i \in DOMAIN edges :
                   /\ edges'[i].id = edges[i].id
                   /\ edges'[i].source = edges[i].source
                   /\ edges'[i].target = edges[i].target]_vars

\* C21: the view handlers have no effect on the layout state.  A scenario
\* change, the Play / Stop button and a click on an edge leave the layout
\* mode, the node list with every position, and every item of localStorage
\* as they are; a scenario change changes nothing of the program's state but
\* the scenario, a click on an edge nothing but the selected payload.
C21_ViewOnlyFrame ==
    [][/\ (SetScenario \/ TogglePlay) => UNCHANGED <<layout, nodes, localStorage>>
       /\ SetScenario => UNCHANGED <<selectedPayload, playing, edges, readers, uncaught>>
       /\ \A i \in DOMAIN edges :
             (/\ selectedPayload' \notin {selectedPayload, Null}
              /\ selectedPayload'.id = edges[i].id
              /\ onEdgeClick(edges[i])) =>
                 UNCHANGED <<layout, nodes, localStorage, scenario, playing, edges,
                             readers, uncaught>>]_vars

\* the three view handlers have acted over a dragged snapshot in lanes: a
\* scenario is chosen, the animation is stopped, a payload is shown, and the
\* snapshot and the dragged position are in place
C21_Witness ==
    /\ ~uncaught
    /\ layout = "lanes"
    /\ scenario = "Returns"
    /\ ~playing
    /\ selectedPayload # Null
    /\ positionIn(nodes, Drops[1].id) = Drops[1].position
    /\ getItem(localStorage, LS_KEY_POSITIONS("lanes")) = JSONstringify(positionsOf(nodes), 0)

\* C22: memory / store consistency.  In every state that has a node list in
\* memory, the load of the current layout from localStorage raises no error
\* and returns, for every node of the node list, the position the node has
\* in memory: reloading the current layout would not move any node.
C22_MemoryMatchesStore ==
    nodes # <<>> =>
        /\ ~makeNodesForLayoutThrows(layout, localStorage)
        /\ LET loaded == makeNodesForLayout(layout, localStorage)
           IN  \A i \in DOMAIN nodes :
                  \E j \in DOMAIN loaded :
                     /\ loaded[j].id = nodes[i].id
                     /\ loaded[j].position = nodes[i].position

\* what does hold of memory and store: as long as no error has escaped, the
\* node list is the load of the current layout
MountedMatchesStore ==
    ~uncaught =>
        /\ ~makeNodesForLayoutThrows(layout, localStorage)
        /\ nodes = makeNodesForLayout(layout, localStorage)

\* a position { x: number; y: number }
isXY(v) == v.js = "point" /\ v.x \in Int /\ v.y \in Int

\* C23: well-formed positions and fixed node set.  As long as no error has
\* escaped, whatever documents have been imported, the node list has exactly
\* one node for every node id of the catalog and no other node, and the
\* position of every node is a pair of numbers (x, y).
C23_WellFormedNodes ==
    ~uncaught =>
        /\ Len(nodes) = Len(NODE_META_KEYS)
        /\ {nodes[i].id : i \in DOMAIN nodes} = Range(NODE_META_KEYS)
        /\ \A i \in DOMAIN nodes : isXY(nodes[i].position)

\* what does hold of the node list: its ids are those of the catalog, in the
\* order of the catalog, one node each; an entry of an imported document for
\* an id the catalog does not have adds no node
NodeSetFixed ==
    ~uncaught =>
        /\ Len(nodes) = Len(NODE_META_KEYS)
        /\ \A i \in DOMAIN nodes : nodes[i].id = NODE_META_KEYS[i]

====
